---------------------------- MODULE Spec2Model ----------------------------
(***************************************************************************)
(* Row reader (Rows iterator) and row mutation engine of the excelize      *)
(* worksheet code (rows.go).                                               *)
(*                                                                         *)
(* Several state machines share this module:                               *)
(*   SpecRows   the streaming iterator: Rows.Next / Rows.Columns over a    *)
(*              token stream;                                              *)
(*   SpecSheet  the in-memory row store: InsertRows, RemoveRow,            *)
(*              DuplicateRowTo, SetRowHeight, GetRowHeight, SetRowStyle;   *)
(*   SpecSST    the shared string store: getFromStringItem called from     *)
(*              several threads; SpecLookup, the same from one thread.     *)
(*   SpecFlush  a RemoveRow and a Rows() call on two threads;              *)
(*   SpecFile   operations on the worksheet, then Rows(), Next, Columns    *)
(*              and Close from one thread;                                 *)
(*   SpecGetRows  File.GetRows over a worksheet part; SpecGetRowsErr, the  *)
(*              same over parts with malformed cell references;            *)
(*   SpecAnyIndex  getFromStringItem with any index;                       *)
(*   SpecDropList  DataValidation.SetDropList (datavalidation.go).         *)
(* Each specification keeps the other machines' variables fixed.           *)
(***************************************************************************)
EXTENDS Integers, Sequences, FiniteSets, TLC

VARIABLES
    \* ---- Rows iterator (type Rows) ----
    stream,       \* the tokens the xml.Decoder will deliver, in order
    pos,          \* number of tokens the decoder has delivered so far
    curRow,       \* Rows.curRow
    seekRow,      \* Rows.seekRow
    token,        \* Rows.token: the buffered row start token, or NoToken
    curRowOpts,   \* Rows.curRowOpts
    seekRowOpts,  \* Rows.seekRowOpts
    lastOp,       \* the method called last: "none", "Next" or "Columns"
    nextRet,      \* what the last Next() returned: "none", "true", "false"
    cells,        \* what the last Columns() returned
    colErr,       \* the error the last Columns() returned
    \* ---- worksheet (type xlsxWorksheet) ----
    Row,          \* ws.SheetData.Row: the row store, a sequence of xlsxRow
    mem,          \* the backing arrays of the rows' cell slices, by address
    MergeCells,   \* ws.MergeCells.Cells: ranges <<x1, y1, x2, y2>>
    ret,          \* the last operation and the error it returned
    steps,        \* number of operations performed
    structOnly,   \* only InsertRows, RemoveRow, DuplicateRowTo so far
    \* ---- shared string store (type File) ----
    sstDoc,       \* the text of each si element of the shared strings part
    sstItem,      \* f.sharedStringItem: the offset pairs <<start, end>>
    sstTemp,      \* f.sharedStringTemp: nil, or the bytes of the spooled file
    builds,       \* how many times the offset list has been built
    th,           \* each thread's position in getFromStringItem and locals
    \* ---- the worksheet part of the package (type File) ----
    pkg,          \* f.Pkg: the bytes of the part held in memory, as tokens
    tmp,          \* the part's file in the temporary directory, as tokens
    loaded,       \* f.Sheet holds the worksheet
    tempFile,     \* Rows.tempFile: "nil", "open" or "closed"
    closeRet,     \* what the last Close() returned, "none" before any
    wsMu,         \* ws.mu: "free" or the holder
    mut,          \* a RemoveRow running on a thread of its own
    reader,       \* a Rows() call running on a thread of its own
    get,          \* the locals of a GetRows call: pc, results, cur, max
    \* ---- data validation (type DataValidation) ----
    dv,           \* the object's Type and Formula1
    dvCall        \* the keys of the last SetDropList call and its error

iterVars == <<stream, pos, curRow, seekRow, token, curRowOpts, seekRowOpts,
              lastOp, nextRet, cells, colErr>>

sheetVars == <<Row, mem, MergeCells, ret, steps, structOnly>>

sstVars == <<sstDoc, sstItem, sstTemp, builds, th>>

fileVars == <<pkg, tmp, loaded, tempFile, closeRet, wsMu, mut, reader, get>>

dvVars == <<dv, dvCall>>

vars == <<iterVars, sheetVars, sstVars, fileVars, dvVars>>

----------------------------------------------------------------------------
(* Bounds of the model.                                                     *)

MaxStreamRows == 2   \* row elements inside sheetData in the row-level streams
MaxRowNum     == 3   \* largest explicit r attribute of a row element
MaxRowCells   == 2   \* c elements of the row in the cell-level streams
MaxCol        == 3   \* largest column of an explicit cell reference
MaxSeek       == 5   \* Next() is not called again once seekRow reaches this

----------------------------------------------------------------------------
(* Tokens.  k is the kind: "row" (StartElement row), "c" (a whole c         *)
(* element, as DecodeElement consumes it), "endrow" (EndElement row),       *)
(* "endSD" (EndElement sheetData) and "nil" (no token).  r is the r         *)
(* attribute of a row (0: absent), ht its ht attribute; col is the column   *)
(* of a cell's r attribute (0: absent), val the value getValueFrom          *)
(* resolves the cell to, f whether the cell has an f child.                 *)

Tok(k, r, ht, col, val, f) ==
    [k |-> k, r |-> r, ht |-> ht, col |-> col, val |-> val, f |-> f]

NoToken    == Tok("nil", 0, 0, 0, "", FALSE)
EndRowTok  == Tok("endrow", 0, 0, 0, "", FALSE)
EndSDTok   == Tok("endSD", 0, 0, 0, "", FALSE)
RowTok(r, ht)        == Tok("row", r, ht, 0, "", FALSE)
CellTok(col, val, f) == Tok("c", 0, 0, col, val, f)

SeqsUpTo(S, n) == UNION {[1..m -> S] : m \in 0..n}

RECURSIVE Flatten(_)
Flatten(ss) == IF ss = <<>> THEN <<>> ELSE Head(ss) \o Flatten(Tail(ss))

\* A cell is blank, holds a value, or holds a formula without cached value.
CellKinds == {<<"", FALSE>>, <<"a", FALSE>>, <<"", TRUE>>}

CellToks(maxCol) ==
    {CellTok(c, kd[1], kd[2]) : c \in 0..maxCol, kd \in CellKinds}

\* A row element: its r attribute and its c elements.
RowElem(r, cs) == [r |-> r, cs |-> cs]

\* The tokens of a sequence of row elements; the i-th row element carries
\* the height 10 + i, so that the attributes tell the elements apart.
RowElemToks(es) ==
    Flatten([i \in 1..Len(es) |->
               <<RowTok(es[i].r, 10 + i)>> \o es[i].cs \o <<EndRowTok>>])

\* What may follow </sheetData>: nothing, or an element whose local name is
\* "row" (Next and Columns compare Name.Local only).
Trailers == {<<>>, <<RowTok(0, 99), EndRowTok>>}

\* Row-level streams: up to MaxStreamRows rows, each empty or with one cell.
RowLevelElems ==
    {RowElem(r, cs) : r \in 0..MaxRowNum, cs \in {<<>>, <<CellTok(0, "a", FALSE)>>}}

\* Cell-level streams: one row with up to MaxRowCells cells.
CellLevelElems ==
    {RowElem(r, cs) : r \in 0..1, cs \in SeqsUpTo(CellToks(MaxCol), MaxRowCells)}

Streams ==
    {RowElemToks(es) \o <<EndSDTok>> \o tr :
        es \in SeqsUpTo(RowLevelElems, MaxStreamRows) \cup
               {<<e>> : e \in CellLevelElems},
        tr \in Trailers}

----------------------------------------------------------------------------
(* Rows.Next                                                                *)

\* extractRowOpts: the attributes of a row element (the zero RowOpts is 0).
extractRowOpts(tok) == tok.ht

ZeroRowOpts == 0

\* Next, lines 96-99: curRow++, then the r attribute when it is not 0.
NextRowNum_NoInc(cur, tok) == IF tok.r # 0 THEN tok.r ELSE cur

NextRowNum(cur, tok) == IF tok.r # 0 THEN tok.r ELSE cur + 1

\* The for loop of Next from decoder position p: the tokens are read until
\* a row start ("row"), the end of sheetData ("end") or no token ("eof").
RECURSIVE NextScan(_, _)
NextScan(s, p) ==
    IF p >= Len(s) THEN [pos |-> p, hit |-> "eof"]
    ELSE LET t == s[p + 1] IN
         IF t.k = "row" THEN [pos |-> p + 1, hit |-> "row"]
         ELSE IF t.k = "endSD" THEN [pos |-> p + 1, hit |-> "end"]
         ELSE NextScan(s, p + 1)

RowsNextStep ==
    /\ seekRow < MaxSeek
    /\ seekRow' = seekRow + 1
    /\ lastOp' = "Next"
    /\ IF curRow >= seekRow + 1
       THEN /\ curRowOpts' = seekRowOpts
            /\ nextRet' = "true"
            /\ UNCHANGED <<pos, curRow, token>>
       ELSE LET sc == NextScan(stream, pos) IN
            /\ pos' = sc.pos
            /\ IF sc.hit = "row"
               THEN /\ curRow' = NextRowNum(curRow, stream[sc.pos])
                    /\ token' = stream[sc.pos]
                    /\ curRowOpts' = extractRowOpts(stream[sc.pos])
                    /\ nextRet' = "true"
               ELSE /\ nextRet' = "false"
                    /\ UNCHANGED <<curRow, token, curRowOpts>>
    /\ UNCHANGED <<stream, seekRowOpts, cells, colErr>>

RowsNext == RowsNextStep /\ UNCHANGED <<sheetVars, sstVars, fileVars, dvVars>>

----------------------------------------------------------------------------
(* Rows.Columns                                                             *)

\* appendSpace(l, s): appends l - 1 empty strings (none when l < 2).
RECURSIVE appendSpace_OneMore(_, _)
appendSpace_OneMore(l, s) ==
    IF l < 1 THEN s ELSE appendSpace_OneMore(l - 1, Append(s, ""))

RECURSIVE appendSpace(_, _)
appendSpace(l, s) == IF l < 2 THEN s ELSE appendSpace(l - 1, Append(s, ""))

\* rowXMLHandler for a c element: it.cellCol and it.cells are the
\* rowXMLIterator's fields.
rowXMLHandler(it, tok) ==
    LET col   == IF tok.col # 0 THEN tok.col ELSE it.cellCol + 1
        blank == col - Len(it.cells)
    IN  [it EXCEPT !.cellCol = col,
                   !.cells = IF tok.val # "" \/ tok.f
                             THEN Append(appendSpace(blank, it.cells), tok.val)
                             ELSE it.cells]

\* rowXMLHandler, lines 218-222: CellNameToCoordinates fails on a reference
\* that names no cell, and Columns returns the error (lines 167-170).
BadRef == -1

CellRefErr(tok) == IF tok.col = BadRef THEN "ErrCoordinates" ELSE "nil"

\* The for loop of Columns.  it carries the decoder position, the fields of
\* Rows the loop writes and the rowXMLIterator.
RECURSIVE ColumnsLoop(_)
ColumnsLoop(it) ==
    LET buffered == it.token.k # "nil" IN
    IF ~buffered /\ it.pos >= Len(stream) THEN it
    ELSE
      LET tok == IF buffered THEN it.token ELSE stream[it.pos + 1]
          p   == IF buffered THEN it.pos ELSE it.pos + 1
      IN  CASE tok.k = "row" ->
                 LET cr == IF tok.r # 0 THEN tok.r
                           ELSE IF ~buffered THEN it.curRow + 1 ELSE it.curRow
                     it1 == [it EXCEPT !.pos = p, !.curRow = cr,
                                       !.token = NoToken,
                                       !.seekRowOpts = extractRowOpts(tok)]
                 IN  IF cr > seekRow THEN it1 ELSE ColumnsLoop(it1)
            [] tok.k = "c" ->
                 IF CellRefErr(tok) # "nil"
                 THEN [it EXCEPT !.pos = p, !.token = NoToken,
                                 !.err = CellRefErr(tok)]
                 ELSE ColumnsLoop(rowXMLHandler(
                          [it EXCEPT !.pos = p, !.token = NoToken], tok))
            [] tok.k = "endSD" -> [it EXCEPT !.pos = p]
            [] OTHER -> ColumnsLoop([it EXCEPT !.pos = p])

RowsColumnsStep ==
    /\ lastOp' = "Columns"
    /\ IF curRow > seekRow
       THEN /\ cells' = <<>>
            /\ colErr' = "nil"
            /\ UNCHANGED <<pos, curRow, token, seekRowOpts>>
       ELSE LET it == ColumnsLoop([pos |-> pos, curRow |-> curRow,
                                   token |-> token,
                                   seekRowOpts |-> seekRowOpts,
                                   cellCol |-> 0, cells |-> <<>>,
                                   err |-> "nil"])
            IN  /\ pos' = it.pos
                /\ curRow' = it.curRow
                /\ token' = it.token
                /\ seekRowOpts' = it.seekRowOpts
                /\ cells' = it.cells
                /\ colErr' = it.err
    /\ UNCHANGED <<stream, seekRow, curRowOpts, nextRet>>

RowsColumns == RowsColumnsStep /\ UNCHANGED <<sheetVars, sstVars, fileVars, dvVars>>

----------------------------------------------------------------------------
(* The iterator's specification: File.Rows builds a Rows with zero fields   *)
(* over a fresh decoder.                                                    *)

\* The worksheet when no operation has been performed on it.
NoRet == [op |-> "none", err |-> "nil"]

\* f.sharedStringTemp when no spooled file has been created.
NilFile == [open |-> FALSE, data |-> <<>>]

\* No shared string has been looked up.
SstIdle ==
    /\ sstDoc = <<>>
    /\ sstItem = <<>>
    /\ sstTemp = NilFile
    /\ builds = 0
    /\ th = <<>>

\* No thread is inside RemoveRow, Rows() or GetRows.
NoMutation == [pc |-> "idle", row |-> 0, before |-> <<>>]
NoReader   == [pc |-> "idle"]
NoGetRows  == [pc |-> "idle", results |-> <<>>, cur |-> 0, max |-> 0,
               err |-> "none"]

\* The package is not looked at.
FileIdle ==
    /\ pkg = <<>>
    /\ tmp = <<>>
    /\ loaded = FALSE
    /\ tempFile = "nil"
    /\ closeRet = "none"
    /\ wsMu = "free"
    /\ mut = NoMutation
    /\ reader = NoReader
    /\ get = NoGetRows

\* No DataValidation object is looked at.
NoValidation == [Type |-> "", Formula1 |-> <<>>]
NoDvCall     == [keys |-> <<>>, err |-> "none"]

DvIdle ==
    /\ dv = NoValidation
    /\ dvCall = NoDvCall

SheetIdle ==
    /\ Row = <<>>
    /\ mem = <<>>
    /\ MergeCells = <<>>
    /\ ret = NoRet
    /\ steps = 0
    /\ structOnly = TRUE

InitRows ==
    /\ SheetIdle
    /\ SstIdle
    /\ FileIdle
    /\ DvIdle
    /\ stream \in Streams
    /\ pos = 0
    /\ curRow = 0
    /\ seekRow = 0
    /\ token = NoToken
    /\ curRowOpts = ZeroRowOpts
    /\ seekRowOpts = ZeroRowOpts
    /\ lastOp = "none"
    /\ nextRet = "none"
    /\ cells = <<>>
    /\ colErr = "nil"

NextRows == RowsNext \/ RowsColumns

SpecRows == InitRows /\ [][NextRows]_vars

----------------------------------------------------------------------------
(* What the token stream says, read as a document: the number of a row      *)
(* element is its r attribute, or the previous row's number + 1; the        *)
(* column of a cell is its reference's column, or the previous cell's       *)
(* column + 1.                                                              *)

DocRowNum(tok, prev) == IF tok.r # 0 THEN tok.r ELSE prev + 1

\* The row elements of the stream carry strictly ascending numbers.
RECURSIVE RowsAscendingFrom(_, _, _)
RowsAscendingFrom(s, i, prev) ==
    IF i > Len(s) THEN TRUE
    ELSE IF s[i].k = "row"
         THEN /\ DocRowNum(s[i], prev) > prev
              /\ RowsAscendingFrom(s, i + 1, DocRowNum(s[i], prev))
         ELSE RowsAscendingFrom(s, i + 1, prev)

RowsAscending(s) == RowsAscendingFrom(s, 1, 0)

\* The c elements of the row element numbered k.
RECURSIVE RowCellsFrom(_, _, _, _)
RowCellsFrom(s, i, prev, k) ==
    IF i > Len(s) THEN <<>>
    ELSE LET n == IF s[i].k = "row" THEN DocRowNum(s[i], prev) ELSE prev IN
         (IF s[i].k = "c" /\ n = k THEN <<s[i]>> ELSE <<>>)
             \o RowCellsFrom(s, i + 1, n, k)

RowCells(s, k) == RowCellsFrom(s, 1, 0, k)

\* The columns of a row's cells.
RECURSIVE DocCols(_, _)
DocCols(cs, prev) ==
    IF cs = <<>> THEN <<>>
    ELSE LET c == IF Head(cs).col # 0 THEN Head(cs).col ELSE prev + 1 IN
         <<c>> \o DocCols(Tail(cs), c)

ColsAscending(cs) ==
    LET cols == DocCols(cs, 0) IN
    \A i \in 1..Len(cols) - 1 : cols[i] < cols[i + 1]

\* The cells that carry a non-empty value or a formula.
Contributing(cs) == {i \in 1..Len(cs) : cs[i].val # "" \/ cs[i].f}

SetMax(S) == CHOOSE m \in S : \A x \in S : x <= m

\* The padded result the sparse-padding rule describes for a row's cells.
Padded(cs) ==
    LET cols == DocCols(cs, 0)
        I    == Contributing(cs)
        L    == IF I = {} THEN 0 ELSE SetMax({cols[i] : i \in I})
    IN  [j \in 1..L |->
           IF \E i \in I : cols[i] = j
           THEN cs[CHOOSE i \in I : cols[i] = j].val
           ELSE ""]

----------------------------------------------------------------------------
(* C1: after every call to Next(), whether it returns true or false and     *)
(* whatever Columns() calls were made in between, curRow >= seekRow.        *)
C1_AfterEveryNext == lastOp = "Next" => curRow >= seekRow

(* C1, amended: over a stream whose row numbers are strictly ascending, a   *)
(* Next() call made while curRow >= seekRow holds that returns true leaves  *)
(* curRow >= seekRow, and every Next() call that returns false leaves       *)
(* curRow < seekRow.                                                        *)
C1_AfterNextTrue ==
    [][/\ (RowsAscending(stream) /\ curRow >= seekRow
             /\ lastOp' = "Next" /\ nextRet' = "true")
          => curRow' >= seekRow'
       /\ (seekRow' = seekRow + 1 /\ nextRet' = "false")
          => curRow' < seekRow']_vars

\* Reached: a third Next() returned true, after a row start was found by
\* reading tokens, on an ascending stream.
C1_Witness ==
    /\ lastOp = "Next" /\ nextRet = "true" /\ RowsAscending(stream)
    /\ seekRow = 3 /\ curRow = 3 /\ token.k = "row"

(* C2: once Next() has returned false, every later Next() on the same       *)
(* iterator returns false too, whatever tokens follow the row container.    *)
C2_StaysExhausted == [][nextRet = "false" => nextRet' = "false"]_vars

(* C3: for a row whose cells are in ascending column order, Columns()       *)
(* returns every cell with a non-empty value or a formula at index          *)
(* column - 1, the empty string at every other index, and as many entries   *)
(* as the column of the last such cell.  (Checked for the first Columns()   *)
(* call after the Next() that delivered the row, over streams whose rows    *)
(* are in ascending order.)                                                 *)
C3_SparsePadding ==
    [][(/\ lastOp = "Next" /\ nextRet = "true" /\ lastOp' = "Columns"
        /\ RowsAscending(stream)
        /\ curRow = seekRow
        /\ ColsAscending(RowCells(stream, seekRow)))
       => cells' = Padded(RowCells(stream, seekRow))]_vars

\* Reached: a row with contributing cells at columns 1 and 3 only has been
\* read as <<"a", "", "a">>.
C3_Witness ==
    /\ lastOp = "Columns" /\ nextRet = "true" /\ RowsAscending(stream)
    /\ ColsAscending(RowCells(stream, seekRow))
    /\ cells = <<"a", "", "a">>

----------------------------------------------------------------------------
(* The worksheet.  A row is an xlsxRow: its number R, its height Ht (<<>>   *)
(* for a nil pointer, <<h>> otherwise), CustomHeight, its style S,          *)
(* CustomFormat, and C, the address in mem of the backing array of its      *)
(* cell slice (0: a nil or empty slice).  A cell is an xlsxC: the column    *)
(* and row of its reference R, its value V and its style S.  The            *)
(* operators below work on a worksheet value w = [Row, mem, Merge].         *)

TotalRows        == 5    \* the row limit (TotalRows), scaled down
MaxInitRows      == 2    \* rows of the worksheet as opened
InitCells        == 2    \* cells of each row of the worksheet as opened
MaxArg           == 3    \* largest row number passed to an operation
MaxSteps         == 2    \* operations performed on one worksheet
MaxRowHeight     == 409
defaultRowHeight == 15
NumStyles        == 2    \* len(s.CellXfs.Xf): the style ids 0 and 1 exist

xlsxC(col, row, v, st) == [col |-> col, row |-> row, V |-> v, S |-> st]

xlsxRow(n, a) ==
    [R |-> n, Ht |-> <<>>, CustomHeight |-> FALSE, S |-> 0,
     CustomFormat |-> FALSE, C |-> a]

\* The cells of a row value r under the backing arrays m.
RowCellsIn(m, r) == IF r.C = 0 THEN <<>> ELSE m[r.C]

\* The cells of the store's i-th row.
CellsAt(w, i) == RowCellsIn(w.mem, w.Row[i])

\* A new backing array: [mem, addr].
Alloc(m, cs) ==
    IF cs = <<>> THEN [mem |-> m, addr |-> 0]
    ELSE [mem |-> Append(m, cs), addr |-> Len(m) + 1]

\* A copy of the cell slice at address a in storage of its own
\* (deepcopy.Copy, line 629, and the append to a fresh slice, line 654).
CloneCells_Shared(m, a) == [mem |-> m, addr |-> a]

CloneCells(m, a) == IF a = 0 THEN [mem |-> m, addr |-> 0] ELSE Alloc(m, m[a])

\* Addresses are renumbered in the order the rows use them and unused
\* arrays are dropped: two worksheets that differ only in where their
\* arrays lie are the same worksheet.
RECURSIVE UsedAddrs(_, _, _)
UsedAddrs(rows, i, acc) ==
    IF i > Len(rows) THEN acc
    ELSE LET a == rows[i].C IN
         UsedAddrs(rows, i + 1,
                   IF a = 0 \/ (\E k \in 1..Len(acc) : acc[k] = a)
                   THEN acc ELSE Append(acc, a))

Canon(w) ==
    LET used   == UsedAddrs(w.Row, 1, <<>>)
        new(a) == IF a = 0 THEN 0 ELSE CHOOSE k \in 1..Len(used) : used[k] = a
    IN  [w EXCEPT !.Row = [i \in 1..Len(w.Row) |-> [w.Row[i] EXCEPT !.C = new(@)]],
                  !.mem = [k \in 1..Len(used) |-> w.mem[used[k]]]]

----------------------------------------------------------------------------
(* adjustHelper and what it calls.                                          *)

\* xlsxRow.adjustSingleRowDimensions: the row's number moves by offset and
\* every cell reference is rewritten to the new number, in place.
adjustSingleRowDimensions(m, r, offset) ==
    [row |-> [r EXCEPT !.R = r.R + offset],
     mem |-> IF r.C = 0 THEN m
             ELSE [m EXCEPT ![r.C] =
                      [k \in 1..Len(@) |-> [@[k] EXCEPT !.row = r.R + offset]]]]

\* The rows a shift at num moves: those numbered num or more on an insert,
\* those numbered above num on a removal.
Shifted(r, num, offset) == IF offset > 0 THEN r.R >= num ELSE r.R > num

RECURSIVE adjustRows(_, _, _, _)
adjustRows(w, i, num, offset) ==
    IF i > Len(w.Row) THEN w
    ELSE IF Shifted(w.Row[i], num, offset)
         THEN LET sh == adjustSingleRowDimensions(w.mem, w.Row[i], offset) IN
              adjustRows([w EXCEPT !.Row[i] = sh.row, !.mem = sh.mem],
                         i + 1, num, offset)
         ELSE adjustRows(w, i + 1, num, offset)

\* adjustRowDimensions fails when a row would pass the row limit.
RowLimitExceeded(w, num, offset) ==
    \E i \in 1..Len(w.Row) :
        Shifted(w.Row[i], num, offset) /\ w.Row[i].R + offset > TotalRows

\* checkSheet: the store is rebuilt so that position i holds the row
\* numbered i: the store's row of that number (the last one, if several),
\* or an empty row.
checkSheet(w) ==
    LET nums == {w.Row[i].R : i \in 1..Len(w.Row)}
        top  == IF nums = {} THEN 0 ELSE CHOOSE n \in nums : \A x \in nums : x <= n
        last(n) == CHOOSE i \in 1..Len(w.Row) :
                      /\ w.Row[i].R = n
                      /\ \A j \in 1..Len(w.Row) : w.Row[j].R = n => j <= i
    IN  [w EXCEPT !.Row = [n \in 1..top |->
                             IF n \in nums THEN w.Row[last(n)] ELSE xlsxRow(n, 0)]]

\* checkRow for one row (lines 725-776), at store position idx: [mem, row,
\* err].  Cells without a reference get one, in place; when the row has
\* fewer cells than the column of its last cell, it gets a new slice of
\* that many cells, a placeholder at every column no cell of the row has.
\* A cell whose column lies beyond the last cell's column is an index out
\* of range.
RECURSIVE FillRefs(_, _, _, _)
FillRefs(cs, k, rCount, rowNum) ==
    IF k > Len(cs) THEN cs
    ELSE IF cs[k].col # 0
         THEN FillRefs(cs, k + 1,
                       IF cs[k].col > rCount + 1 THEN cs[k].col ELSE rCount + 1,
                       rowNum)
         ELSE FillRefs([cs EXCEPT ![k] = [@ EXCEPT !.col = rCount + 1,
                                                    !.row = rowNum]],
                       k + 1, rCount + 1, rowNum)

\* The placeholder checkRow puts at column c of the row at position idx.
Placeholder_RowAbove(c, idx) == xlsxC(c, idx, 0, 0)

Placeholder(c, idx) == xlsxC(c, idx + 1, 0, 0)

RECURSIVE PlaceCells(_, _, _)
PlaceCells(target, source, k) ==
    IF k > Len(source) THEN target
    ELSE PlaceCells([target EXCEPT ![source[k].col] = source[k]], source, k + 1)

checkOneRow(m, r, idx) ==
    IF RowCellsIn(m, r) = <<>> THEN [mem |-> m, row |-> r, err |-> "nil"]
    ELSE
      LET filled  == FillRefs(m[r.C], 1, 0, idx + 1)
          m1      == [m EXCEPT ![r.C] = filled]
          lastCol == filled[Len(filled)].col
      IN  IF Len(filled) >= lastCol THEN [mem |-> m1, row |-> r, err |-> "nil"]
          ELSE IF \E k \in 1..Len(filled) : filled[k].col > lastCol
               THEN [mem |-> m1, row |-> r, err |-> "panic"]
               ELSE LET al == Alloc(m1, PlaceCells(
                                  [c \in 1..lastCol |-> Placeholder(c, idx)],
                                  filled, 1))
                    IN  [mem |-> al.mem, row |-> [r EXCEPT !.C = al.addr],
                         err |-> "nil"]

\* checkRow: every row of the store in turn; it stops at the first failure.
RECURSIVE checkRowFrom(_, _)
checkRowFrom(w, i) ==
    IF i > Len(w.Row) THEN [w |-> w, err |-> "nil"]
    ELSE LET one == checkOneRow(w.mem, w.Row[i], i - 1) IN
         IF one.err # "nil"
         THEN [w |-> [w EXCEPT !.mem = one.mem], err |-> one.err]
         ELSE checkRowFrom([w EXCEPT !.mem = one.mem, !.Row[i] = one.row], i + 1)

checkRow(w) == checkRowFrom(w, 1)

\* adjustMergeCells: a range at or below the shift moves with it, a range
\* across it grows or shrinks; a removed single row takes its ranges along.
adjustMergeCell(rg, num, offset) ==
    LET x1 == rg[1]
        y1 == rg[2]
        x2 == rg[3]
        y2 == rg[4]
    IN  IF offset >= 0
        THEN IF num <= y1 THEN <<x1, y1 + offset, x2, y2 + offset>>
             ELSE IF num <= y2 THEN <<x1, y1, x2, y2 + offset>>
             ELSE rg
        ELSE IF num < y1 THEN <<x1, y1 + offset, x2, y2 + offset>>
             ELSE IF num <= y2 THEN <<x1, y1, x2, y2 + offset>>
             ELSE rg

RECURSIVE adjustMergeCells(_, _, _)
adjustMergeCells(mc, num, offset) ==
    IF mc = <<>> THEN <<>>
    ELSE LET rg   == Head(mc)
             rest == adjustMergeCells(Tail(mc), num, offset)
             adj  == adjustMergeCell(rg, num, offset)
         IN  IF offset < 0 /\ rg[2] = num /\ rg[4] = num THEN rest
             ELSE IF adj[1] = adj[3] /\ adj[2] = adj[4] THEN rest
             ELSE <<adj>> \o rest

\* adjustHelper(sheet, rows, num, offset): [w, err].
adjustHelper(w, num, offset) ==
    IF RowLimitExceeded(w, num, offset) THEN [w |-> w, err |-> "ErrMaxRows"]
    ELSE LET moved == checkSheet(adjustRows(w, 1, num, offset))
             dense == checkRow(moved).w
         IN  [w |-> [dense EXCEPT !.Merge = adjustMergeCells(@, num, offset)],
              err |-> "nil"]

----------------------------------------------------------------------------
(* The operations on the row store.  Each gives [w, err].                   *)

Ok(w)        == [w |-> w, err |-> "nil"]
Fail(w, err) == [w |-> w, err |-> err]

\* The position of the first row numbered n, or 0.
FirstIndex(rows, n) ==
    IF \E i \in 1..Len(rows) : rows[i].R = n
    THEN CHOOSE i \in 1..Len(rows) :
            rows[i].R = n /\ \A j \in 1..i - 1 : rows[j].R # n
    ELSE 0

InsertRows_Swallow(w, row, n) ==
    IF row < 1 THEN Fail(w, "ErrInvalidRow")
    ELSE IF row >= TotalRows \/ n >= TotalRows THEN Fail(w, "ErrMaxRows")
    ELSE IF n < 1 THEN Fail(w, "ErrParameterInvalid")
    ELSE Ok(adjustHelper(w, row, n).w)

InsertRows_After(w, row, n) ==
    IF row < 1 THEN Fail(w, "ErrInvalidRow")
    ELSE IF row >= TotalRows \/ n >= TotalRows THEN Fail(w, "ErrMaxRows")
    ELSE IF n < 1 THEN Fail(w, "ErrParameterInvalid")
    ELSE adjustHelper(w, row + 1, n)

InsertRows(w, row, n) ==
    IF row < 1 THEN Fail(w, "ErrInvalidRow")
    ELSE IF row >= TotalRows \/ n >= TotalRows THEN Fail(w, "ErrMaxRows")
    ELSE IF n < 1 THEN Fail(w, "ErrParameterInvalid")
    ELSE adjustHelper(w, row, n)

\* The compaction of RemoveRow (lines 554-562): the rows numbered row go.
KeepOthers(rows, row) == SelectSeq(rows, LAMBDA r : r.R # row)

RemoveRow(w, row) ==
    IF row < 1 THEN Fail(w, "ErrInvalidRow")
    ELSE IF row > Len(w.Row) THEN adjustHelper(w, row, -1)
    ELSE adjustHelper([w EXCEPT !.Row = KeepOthers(@, row)], row, -1)

\* MergeCell(sheet, from, to): [mc, err].  The range is added to the merge
\* list; a reference to a row beyond the row limit is no cell reference.
MergeCell(mc, x1, y1, x2, y2) ==
    IF y1 > TotalRows \/ y2 > TotalRows THEN [mc |-> mc, err |-> "ErrCoordinates"]
    ELSE [mc |-> Append(mc, <<x1, y1, x2, y2>>), err |-> "nil"]

\* The row that blocks the duplication of merges: row2 lies strictly
\* inside a range (line 680).
InsideRange_Never(rg, row2) == FALSE

InsideRange(rg, row2) == rg[2] < row2 /\ row2 < rg[4]

\* The second loop of duplicateMergeCells; the list grows while it runs.
RECURSIVE dupMergesFrom(_, _, _, _)
dupMergesFrom(mc, i, row, row2) ==
    IF i > Len(mc) THEN [mc |-> mc, err |-> "nil"]
    ELSE LET rg == mc[i] IN
         IF rg[2] = rg[4] /\ rg[2] = row
         THEN LET added == MergeCell(mc, rg[1], row2, rg[3], row2) IN
              IF added.err # "nil" THEN added
              ELSE dupMergesFrom(added.mc, i + 1, row, row2)
         ELSE dupMergesFrom(mc, i + 1, row, row2)

\* The row the source's merges lie on once the target row is inserted
\* (lines 672-674).
MergeSourceRow_Unshifted(row, row2) == row

MergeSourceRow(row, row2) == IF row > row2 THEN row + 1 ELSE row

duplicateMergeCells(w, row0, row2) ==
    LET row == MergeSourceRow(row0, row2) IN
    IF w.Merge = <<>> THEN Ok(w)
    ELSE IF \E i \in 1..Len(w.Merge) : InsideRange(w.Merge[i], row2) THEN Ok(w)
    ELSE LET dup == dupMergesFrom(w.Merge, 1, row, row2) IN
         [w |-> [w EXCEPT !.Merge = dup.mc], err |-> dup.err]

\* The copy goes where the row numbered row2 is, or to the end of the store
\* (lines 658-662).
PlaceCopy_Append(rows, idx2, rowCopy) == Append(rows, rowCopy)

PlaceCopy(rows, idx2, rowCopy) ==
    IF idx2 # 0 THEN [rows EXCEPT ![idx2] = rowCopy] ELSE Append(rows, rowCopy)

DuplicateRowTo(w, row, row2) ==
    IF row < 1 THEN Fail(w, "ErrInvalidRow")
    ELSE IF row2 < 1 \/ row = row2 THEN Ok(w)
    ELSE
      LET i       == FirstIndex(w.Row, row)
          ok      == i # 0
          cp      == IF ok THEN CloneCells(w.mem, w.Row[i].C)
                     ELSE [mem |-> w.mem, addr |-> 0]
          rowCopy == IF ok THEN [w.Row[i] EXCEPT !.C = cp.addr] ELSE xlsxRow(0, 0)
          adj     == adjustHelper([w EXCEPT !.mem = cp.mem], row2, 1)
      IN  IF adj.err # "nil" THEN Fail(w, adj.err)
          ELSE IF ~ok THEN adj
          ELSE
            LET w1   == adj.w
                idx2 == FirstIndex(w1.Row, row2)
            IN  IF idx2 = 0 /\ Len(w1.Row) >= row2 THEN adj
                ELSE
                  LET cp2 == CloneCells(w1.mem, rowCopy.C)
                      sh  == adjustSingleRowDimensions(
                                 cp2.mem, [rowCopy EXCEPT !.C = cp2.addr], row2 - row)
                      w2  == [w1 EXCEPT
                                !.mem = sh.mem,
                                !.Row = PlaceCopy(@, idx2, sh.row)]
                  IN  duplicateMergeCells(w2, row, row2)

\* prepareSheetXML(0, row): rows are appended until the store has row rows;
\* the k-th position gets the number k.
prepareSheetXML(w, row) ==
    LET have == Len(w.Row) IN
    IF have >= row THEN w
    ELSE [w EXCEPT !.Row = @ \o [k \in 1..row - have |-> xlsxRow(have + k, 0)]]

SetRowHeight(w, row, height) ==
    IF row < 1 THEN Fail(w, "ErrInvalidRow")
    ELSE IF height > MaxRowHeight THEN Fail(w, "ErrMaxRowHeight")
    ELSE LET w1 == prepareSheetXML(w, row) IN
         Ok([w1 EXCEPT !.Row[row].Ht = <<height>>,
                       !.Row[row].CustomHeight = TRUE])

\* GetRowHeight: [val, err].  The sheet has no SheetFormatPr.
GetRowHeight(w, row) ==
    IF row < 1 THEN [val |-> defaultRowHeight, err |-> "ErrInvalidRow"]
    ELSE IF row > Len(w.Row) THEN [val |-> defaultRowHeight, err |-> "nil"]
    ELSE IF \E i \in 1..Len(w.Row) : w.Row[i].R = row /\ w.Row[i].Ht # <<>>
         THEN [val |-> w.Row[CHOOSE i \in 1..Len(w.Row) :
                                 /\ w.Row[i].R = row /\ w.Row[i].Ht # <<>>
                                 /\ \A j \in 1..i - 1 :
                                       ~(w.Row[j].R = row /\ w.Row[j].Ht # <<>>)].Ht[1],
               err |-> "nil"]
         ELSE [val |-> defaultRowHeight, err |-> "nil"]

\* The loop of SetRowStyle (lines 823-831) from position idx to end.
RECURSIVE styleRows(_, _, _, _)
styleRows(w, idx, end, styleID) ==
    IF idx > end THEN w
    ELSE LET r  == w.Row[idx]
             m1 == IF r.C = 0 THEN w.mem
                   ELSE [w.mem EXCEPT ![r.C] =
                           [k \in 1..Len(@) |->
                              IF @[k].col # 0 /\ @[k].row = idx
                              THEN [@[k] EXCEPT !.S = styleID] ELSE @[k]]]
         IN  styleRows([w EXCEPT !.mem = m1,
                                 !.Row[idx].S = styleID,
                                 !.Row[idx].CustomFormat = TRUE],
                       idx + 1, end, styleID)

SetRowStyle(w, start0, end0, styleID) ==
    LET start == IF end0 < start0 THEN end0 ELSE start0
        end   == IF end0 < start0 THEN start0 ELSE end0
    IN  IF start < 1 THEN Fail(w, "ErrInvalidRow")
        ELSE IF end > TotalRows THEN Fail(w, "ErrMaxRows")
        ELSE IF styleID < 0 \/ NumStyles <= styleID THEN Fail(w, "ErrInvalidStyleID")
        ELSE Ok(styleRows(prepareSheetXML(w, end), start, end, styleID))

----------------------------------------------------------------------------
(* The worksheet's specification.                                           *)

\* The worksheet the state holds.
Sheet == [Row |-> Row, mem |-> mem, Merge |-> MergeCells]

\* The worksheet as opened: rows 1..n, each with InitCells cells whose
\* value names the row and column they started at.  Its merged cells, where
\* it has any: up to two ranges, a single-row range over columns 1-2 and a
\* two-row range on column 3.
InitCellsOf(n) == [j \in 1..InitCells |-> xlsxC(j, n, 10 * n + j, 0)]

InitMergeLists(n) ==
    LET single  == {<<1, y, 2, y>> : y \in 1..n}
        tall    == {<<3, y, 3, y + 1>> : y \in 1..n - 1}
    IN  {<<>>} \cup {<<a>> : a \in single \cup tall}
               \cup {<<a, b>> : a \in single, b \in tall}

\* No row iterator is open.
IterIdle ==
    /\ stream = <<>>
    /\ pos = 0
    /\ curRow = 0
    /\ seekRow = 0
    /\ token = NoToken
    /\ curRowOpts = ZeroRowOpts
    /\ seekRowOpts = ZeroRowOpts
    /\ lastOp = "none"
    /\ nextRet = "none"
    /\ cells = <<>>
    /\ colErr = "nil"

InitSheet ==
    /\ \E n \in 0..MaxInitRows :
         /\ Row = [i \in 1..n |-> xlsxRow(i, i)]
         /\ mem = [i \in 1..n |-> InitCellsOf(i)]
    /\ MergeCells = <<>>
    /\ ret = NoRet
    /\ steps = 0
    /\ structOnly = TRUE
    /\ IterIdle
    /\ SstIdle
    /\ FileIdle
    /\ DvIdle

\* The same worksheet with merged cells.
InitMerged ==
    /\ \E n \in 1..MaxInitRows :
         /\ Row = [i \in 1..n |-> xlsxRow(i, i)]
         /\ mem = [i \in 1..n |-> InitCellsOf(i)]
         /\ MergeCells \in InitMergeLists(n) \ {<<>>}
    /\ ret = NoRet
    /\ steps = 0
    /\ structOnly = TRUE
    /\ IterIdle
    /\ SstIdle
    /\ FileIdle
    /\ DvIdle

\* An operation's result becomes the state.
DoneStep(res, op, struct) ==
    LET w == Canon(res.w) IN
    /\ steps < MaxSteps
    /\ Row' = w.Row
    /\ mem' = w.mem
    /\ MergeCells' = w.Merge
    /\ ret' = [op |-> op, err |-> res.err]
    /\ steps' = steps + 1
    /\ structOnly' = (structOnly /\ struct)

Done(res, op, struct) ==
    DoneStep(res, op, struct) /\ UNCHANGED <<iterVars, sstVars, fileVars, dvVars>>

Heights == {50, MaxRowHeight + 1}

RowArgs  == 0..MaxArg
Counts   == 0..2
StyleIDs == {NumStyles - 1, NumStyles}

DoInsertRows ==
    \E row \in RowArgs, n \in Counts :
        Done(InsertRows(Sheet, row, n), "InsertRows", TRUE)

DoRemoveRow ==
    \E row \in RowArgs :
        Done(RemoveRow(Sheet, row), "RemoveRow", TRUE)

DoDuplicateRowTo ==
    \E row \in RowArgs, row2 \in RowArgs :
        Done(DuplicateRowTo(Sheet, row, row2), "DuplicateRowTo", TRUE)

DoSetRowHeight ==
    \E row \in RowArgs, h \in Heights :
        Done(SetRowHeight(Sheet, row, h), "SetRowHeight", FALSE)

DoSetRowStyle ==
    \E start \in RowArgs, end \in RowArgs, styleID \in StyleIDs :
        /\ end \in {start, start + 1}
        /\ Done(SetRowStyle(Sheet, start, end, styleID), "SetRowStyle", FALSE)

NextSheet ==
    \/ DoInsertRows
    \/ DoRemoveRow
    \/ DoDuplicateRowTo
    \/ DoSetRowHeight
    \/ DoSetRowStyle

SpecSheet == InitSheet /\ [][NextSheet]_vars

\* The operations that move rows, on a worksheet with merged cells.
NextMerged ==
    \/ DoInsertRows
    \/ DoRemoveRow
    \/ DoDuplicateRowTo

SpecMerged == InitMerged /\ [][NextMerged]_vars

\* The same, with duplication to the row after the last row a worksheet
\* can have.
DoDuplicateRowFar ==
    \E row \in RowArgs :
        Done(DuplicateRowTo(Sheet, row, TotalRows + 1), "DuplicateRowTo", TRUE)

NextFar ==
    \/ NextMerged
    \/ DoDuplicateRowFar

SpecFar == InitMerged /\ [][NextFar]_vars

----------------------------------------------------------------------------
(* What a worksheet says about its rows, for the properties below.          *)

SheetNext == [Row |-> Row', mem |-> mem', Merge |-> MergeCells']

\* The step just taken was op with result res.
Did(res, op) ==
    LET w == Canon(res.w) IN
    /\ ret'.op = op
    /\ ret'.err = res.err
    /\ Row' = w.Row
    /\ mem' = w.mem
    /\ MergeCells' = w.Merge

\* The row numbers a worksheet of this model can hold.
RowNums == 1..(TotalRows + MaxArg + 2)

UniqueNums(w) ==
    \A i, j \in 1..Len(w.Row) : w.Row[i].R = w.Row[j].R => i = j

HasRow(w, r) == \E i \in 1..Len(w.Row) : w.Row[i].R = r

\* The cell content of the row numbered r: column, value and style of each
\* cell; empty when no row has the number.
Content(w, r) ==
    IF ~HasRow(w, r) THEN <<>>
    ELSE LET cs == CellsAt(w, FirstIndex(w.Row, r)) IN
         [k \in 1..Len(cs) |-> [col |-> cs[k].col, V |-> cs[k].V, S |-> cs[k].S]]

(* C4: an InsertRows(sheet, position, count) with position >= 1 and         *)
(* count >= 1 that succeeds moves every row numbered r >= position to       *)
(* r + count with its cell content unchanged, leaves every row numbered     *)
(* r < position unchanged and leaves rows position .. position+count-1      *)
(* without cell content.  (Checked from every reachable worksheet whose     *)
(* row numbers are unique.)                                                 *)
C4_InsertShift ==
    [][\A row \in RowArgs, n \in Counts :
         (/\ row >= 1 /\ n >= 1
          /\ UniqueNums(Sheet)
          /\ Did(InsertRows(Sheet, row, n), "InsertRows")
          /\ ret'.err = "nil")
         => \A r \in RowNums :
               Content(SheetNext, r) =
                  IF r < row THEN Content(Sheet, r)
                  ELSE IF r < row + n THEN <<>>
                  ELSE Content(Sheet, r - n)]_vars

\* Reached: InsertRows(sheet, 2, 2) on rows {1, 2}: row 1 in place, rows 2
\* and 3 empty, the content of row 2 at row 4.
C4_Witness ==
    /\ ret = [op |-> "InsertRows", err |-> "nil"] /\ steps = 1
    /\ Content(Sheet, 1) # <<>> /\ Content(Sheet, 1)[1].V = 11
    /\ Content(Sheet, 2) = <<>> /\ Content(Sheet, 3) = <<>>
    /\ Content(Sheet, 4) # <<>> /\ Content(Sheet, 4)[1].V = 21

(* C5: in every worksheet state reachable by InsertRows, RemoveRow and      *)
(* DuplicateRowTo calls, RemoveRow(sheet, row) with row >= 1 drops the row  *)
(* numbered row, moves every row numbered r > row to r - 1 with its         *)
(* content unchanged and leaves the rows numbered r < row unchanged.        *)
C5_RemoveShift ==
    [][\A row \in RowArgs :
         (/\ row >= 1
          /\ structOnly
          /\ Did(RemoveRow(Sheet, row), "RemoveRow")
          /\ ret'.err = "nil")
         => \A r \in RowNums :
               Content(SheetNext, r) =
                  IF r < row THEN Content(Sheet, r) ELSE Content(Sheet, r + 1)]_vars

(* C6: when DuplicateRowTo(sheet, source, target) returns without error,    *)
(* with source >= 1 present in the row store, target >= 1 and               *)
(* target # source, the store afterwards holds exactly one row numbered     *)
(* target, and its cells are the source row's cells as they were at the     *)
(* call: same columns, values and styles, each coordinate rewritten to row  *)
(* target.                                                                  *)
C6_DuplicatePlaced ==
    [][\A row \in RowArgs, row2 \in RowArgs :
         (/\ row >= 1 /\ row2 >= 1 /\ row # row2
          /\ HasRow(Sheet, row)
          /\ Did(DuplicateRowTo(Sheet, row, row2), "DuplicateRowTo")
          /\ ret'.err = "nil")
         => /\ Cardinality({i \in 1..Len(Row') : Row'[i].R = row2}) = 1
            /\ LET src == CellsAt(Sheet, FirstIndex(Row, row))
                   dup == CellsAt(SheetNext, FirstIndex(Row', row2))
               IN  dup = [k \in 1..Len(src) |-> [src[k] EXCEPT !.row = row2]]]_vars

\* Reached: DuplicateRowTo(sheet, 1, 2) on rows {1, 2}: row 2 holds the
\* cells of row 1, the old row 2 is row 3.
C6_Witness ==
    /\ ret = [op |-> "DuplicateRowTo", err |-> "nil"] /\ steps = 1
    /\ Content(Sheet, 1) # <<>> /\ Content(Sheet, 1)[1].V = 11
    /\ Content(Sheet, 2) = Content(Sheet, 1)
    /\ Content(Sheet, 3) # <<>> /\ Content(Sheet, 3)[1].V = 21

(* C7: the duplicate and the source share no cell storage: no two rows of   *)
(* the store use the same backing array, and a later change to the cells    *)
(* of some rows (SetRowStyle on start..end) leaves the cells of every       *)
(* other row, the source or the duplicate among them, unchanged.            *)
C7_NoSharedCells ==
    [][/\ \A i, j \in 1..Len(Row') :
            (i # j /\ Row'[i].C # 0) => Row'[i].C # Row'[j].C
       /\ \A start \in RowArgs, end \in RowArgs, styleID \in StyleIDs :
            (/\ Did(SetRowStyle(Sheet, start, end, styleID), "SetRowStyle")
             /\ ret'.err = "nil")
            => \A i \in 1..Len(Row) :
                  (i < start /\ i < end) \/ (i > start /\ i > end)
                  => CellsAt(SheetNext, i) = CellsAt(Sheet, i)]_vars

\* Reached: row 2 is a duplicate of row 1 and has been restyled since; the
\* cells of row 1 still carry the old style.
C7_Witness ==
    /\ ret = [op |-> "SetRowStyle", err |-> "nil"]
    /\ Len(Row) >= 2 /\ Row[1].R = 1 /\ Row[2].R = 2
    /\ Content(Sheet, 1) # <<>>
    /\ \A k \in 1..Len(Content(Sheet, 1)) :
          /\ Content(Sheet, 1)[k].V = 10 + k
          /\ Content(Sheet, 1)[k].S = 0
    /\ Content(Sheet, 2) =
          [k \in 1..Len(Content(Sheet, 1)) |->
              [Content(Sheet, 1)[k] EXCEPT !.S = 1]]

(* C8: when DuplicateRowTo duplicates a row, then for every merge range on  *)
(* the single row source: if the target row is not inside a merge range     *)
(* that spans several rows, a range on row target with the same first and   *)
(* last column exists afterwards; if it is, no range is added for the       *)
(* duplicate and no error is returned.  (The target row is the row          *)
(* inserted at target; the ranges are those after that insertion.)          *)
TallOver(mc, row2) ==
    \E i \in 1..Len(mc) : mc[i][2] < mc[i][4] /\ mc[i][2] <= row2 /\ row2 <= mc[i][4]

OnRow(mc, r) == {i \in 1..Len(mc) : mc[i][2] = r /\ mc[i][4] = r}

C8_MergesDuplicated ==
    [][\A row \in RowArgs, row2 \in RowArgs :
         (/\ row >= 1 /\ row2 >= 1 /\ row # row2
          /\ HasRow(Sheet, row)
          /\ Did(DuplicateRowTo(Sheet, row, row2), "DuplicateRowTo")
          /\ ret'.err # "ErrMaxRows")
         => /\ ret'.err = "nil"
            /\ \A i \in OnRow(MergeCells, row) :
                  IF TallOver(MergeCells', row2)
                  THEN OnRow(MergeCells', row2) = {}
                  ELSE \E j \in OnRow(MergeCells', row2) :
                          /\ MergeCells'[j][1] = MergeCells[i][1]
                          /\ MergeCells'[j][3] = MergeCells[i][3]]_vars

\* Reached: the range A1:B1 of row 1 has been duplicated to row 2.
C8_Witness ==
    /\ ret = [op |-> "DuplicateRowTo", err |-> "nil"] /\ steps = 1
    /\ MergeCells = <<<<1, 1, 2, 1>>, <<1, 2, 2, 2>>>>
    /\ Content(Sheet, 2) = Content(Sheet, 1) /\ Content(Sheet, 1) # <<>>

(* C9: in every worksheet state reachable by InsertRows, RemoveRow and      *)
(* DuplicateRowTo calls, for every row >= 1 and every height not above the  *)
(* maximum row height, SetRowHeight(sheet, row, h) followed by              *)
(* GetRowHeight(sheet, row) returns h.                                      *)
C9_HeightRoundTrip ==
    [][\A row \in RowArgs, h \in Heights :
         (/\ row >= 1 /\ h <= MaxRowHeight
          /\ structOnly
          /\ Did(SetRowHeight(Sheet, row, h), "SetRowHeight"))
         => /\ ret'.err = "nil"
            /\ GetRowHeight(SheetNext, row) = [val |-> h, err |-> "nil"]]_vars

----------------------------------------------------------------------------
(* Row normalization on its own: checkRow applied to a worksheet as it is   *)
(* read, whose rows may be sparse and whose cells may lack a reference.     *)

MaxLead       == 1    \* rows missing in front of the first row read
MaxCheckCells == 2    \* cells of a row read
MaxCheckCol   == 3    \* highest column of a cell read

\* The cell sequences a row read can have: the k-th cell has value 70 + k
\* and style 1, and either a reference (col, n) or none (col 0).
RawCells(n) ==
    UNION {[1..len -> {xlsxC(c, IF c = 0 THEN 0 ELSE n, 0, 1) : c \in 0..MaxCheckCol}]
              : len \in 0..MaxCheckCells}

Valued(cs) == [k \in 1..Len(cs) |-> [cs[k] EXCEPT !.V = 70 + k]]

RECURSIVE StoreOf(_, _, _)
StoreOf(w, raw, n) ==
    IF raw = <<>> THEN w
    ELSE LET al == Alloc(w.mem, Head(raw)) IN
         StoreOf([w EXCEPT !.mem = al.mem, !.Row = Append(@, xlsxRow(n, al.addr))],
                 Tail(raw), n + 1)

\* The store checkRow is given: one or two rows read, numbered from first
\* on, each at the position of its number (checkSheet).
InitCheckRow ==
    /\ \E first \in 1..MaxLead + 1, two \in BOOLEAN :
       \E a \in RawCells(first), b \in IF two THEN RawCells(first + 1) ELSE {<<>>} :
         LET raw == IF two THEN <<Valued(a), Valued(b)>> ELSE <<Valued(a)>>
             w   == Canon(checkSheet(StoreOf([Row |-> <<>>, mem |-> <<>>,
                                              Merge |-> <<>>], raw, first)))
         IN  /\ Row = w.Row
             /\ mem = w.mem
             /\ MergeCells = w.Merge
    /\ ret = NoRet
    /\ steps = 0
    /\ structOnly = TRUE
    /\ IterIdle
    /\ SstIdle
    /\ FileIdle
    /\ DvIdle

DoCheckRow == Done(checkRow(Sheet), "checkRow", TRUE)

SpecCheckRow == InitCheckRow /\ [][DoCheckRow]_vars

\* Every cell has a reference and the columns strictly ascend.
Ascending(cs) ==
    /\ \A k \in 1..Len(cs) : cs[k].col >= 1
    /\ \A k \in 1..Len(cs) - 1 : cs[k].col < cs[k + 1].col

(* C10: checkRow turns every non-empty row whose cells are in ascending     *)
(* column order, with last column L and fewer than L cells, into a row of   *)
(* exactly L cells in which index i holds column i+1: each original cell    *)
(* is kept unchanged at its own column and every other position holds a    *)
(* placeholder with no value whose coordinate is (column i+1, the row's     *)
(* own number).                                                             *)
C10_RowNormalized ==
    [][(Did(checkRow(Sheet), "checkRow") /\ ret'.err = "nil")
       => \A i \in 1..Len(Row) :
             LET cs == CellsAt(Sheet, i)
                 L  == cs[Len(cs)].col
             IN  (cs # <<>> /\ Ascending(cs) /\ Len(cs) < L)
                 => LET out == CellsAt(SheetNext, i) IN
                    /\ Len(out) = L
                    /\ \A c \in 1..L :
                          IF \E k \in 1..Len(cs) : cs[k].col = c
                          THEN \E k \in 1..Len(cs) : cs[k].col = c /\ out[c] = cs[k]
                          ELSE out[c] = xlsxC(c, Row[i].R, 0, 0)]_vars

\* Reached: row 2 was read with cells at columns 1 and 3 and now has three
\* cells, a placeholder B2 between them.
C10_Witness ==
    /\ ret = [op |-> "checkRow", err |-> "nil"]
    /\ Len(Row) >= 2 /\ Row[2].R = 2
    /\ CellsAt(Sheet, 2) = <<xlsxC(1, 2, 71, 1), xlsxC(2, 2, 0, 0), xlsxC(3, 2, 72, 1)>>

----------------------------------------------------------------------------
(* The shared string store: File.getFromStringItem (lines 276-322).  A      *)
(* string is a sequence of characters; the spooled file is the sequence of  *)
(* the bytes written to it.  The function takes no lock, so the threads'    *)
(* steps interleave at every read and write of a field of File.             *)

MaxSI      == 2   \* si elements of the shared strings part
NumThreads == 2   \* threads that look strings up
MaxCalls   == 2   \* lookups of one thread

Threads == 1..NumThreads

\* The texts an si element renders to (xlsxSI.String()).
Texts == {<<>>, <<"a">>, <<"b", "c">>}

\* strconv.Itoa for the indexes of the model.
Digit(d) == CASE d = 0 -> "0" [] d = 1 -> "1" [] d = 2 -> "2" [] d = 3 -> "3"
              [] d = 4 -> "4" [] d = 5 -> "5" [] d = 6 -> "6" [] d = 7 -> "7"
              [] d = 8 -> "8" [] OTHER -> "9"

RECURSIVE Itoa(_)
Itoa(n) == IF n < 10 THEN <<Digit(n)>> ELSE Append(Itoa(n \div 10), Digit(n % 10))

\* The indexes looked up: those of the part and two beyond.
Indexes == 0..MaxSI + 1

\* A thread outside getFromStringItem.
IdleThread == [pc |-> "idle", index |-> 0, i |-> 0, offset |-> 0,
               res |-> <<>>, calls |-> 0]

\* sharedStringTemp.ReadAt(buf, start) with len(buf) = end - start: the
\* bytes, or the error of a short read.
ReadAt(file, start, end) ==
    IF end <= start THEN [err |-> FALSE, buf |-> <<>>]
    ELSE IF end > Len(file.data) THEN [err |-> TRUE, buf |-> <<>>]
    ELSE [err |-> FALSE, buf |-> SubSeq(file.data, start + 1, end)]

\* offset += uint(n), line 313.
OffsetAfter_Reset(offset, n) == n

OffsetAfter(offset, n) == offset + n

\* The call: getFromStringItem(index).
SstCall(t) ==
    /\ th[t].pc = "idle"
    /\ th[t].calls < MaxCalls
    /\ \E index \in Indexes :
         th' = [th EXCEPT ![t] = [@ EXCEPT !.pc = "check", !.index = index,
                                           !.calls = @ + 1]]
    /\ UNCHANGED <<sstDoc, sstItem, sstTemp, builds>>

\* Line 277: if f.sharedStringTemp != nil.
SstCheck(t) ==
    /\ th[t].pc = "check"
    /\ th' = [th EXCEPT ![t].pc = IF sstTemp.open THEN "len" ELSE "init"]
    /\ UNCHANGED <<sstDoc, sstItem, sstTemp, builds>>

\* Lines 278-286: the index is beyond the offset list, or the bytes of its
\* range are read from the spooled file.  A negative index passes the
\* length test and f.sharedStringItem[index] is a run-time panic.
SstLookup(t) ==
    /\ th[t].pc = "len"
    /\ IF Len(sstItem) <= th[t].index
       THEN th' = [th EXCEPT ![t] = [@ EXCEPT !.pc = "done",
                                              !.res = Itoa(th[t].index)]]
       ELSE IF th[t].index < 0
       THEN th' = [th EXCEPT ![t].pc = "panic"]
       ELSE LET rg == sstItem[th[t].index + 1]
                rd == ReadAt(sstTemp, rg[1], rg[2])
            IN  th' = [th EXCEPT ![t] = [@ EXCEPT
                          !.pc  = "done",
                          !.res = IF rd.err THEN Itoa(th[t].index) ELSE rd.buf]]
    /\ UNCHANGED <<sstDoc, sstItem, sstTemp, builds>>

\* Line 294: f.sharedStringItem = [][]uint{}.
SstInit(t) ==
    /\ th[t].pc = "init"
    /\ sstItem' = <<>>
    /\ th' = [th EXCEPT ![t].pc = "create"]
    /\ UNCHANGED <<sstDoc, sstTemp, builds>>

\* Line 295: f.sharedStringTemp, _ = os.CreateTemp(...): a new, empty file.
SstCreate(t) ==
    /\ th[t].pc = "create"
    /\ sstTemp' = [open |-> TRUE, data |-> <<>>]
    /\ builds' = builds + 1
    /\ th' = [th EXCEPT ![t] = [@ EXCEPT !.pc = "loop", !.i = 0, !.offset = 0]]
    /\ UNCHANGED <<sstDoc, sstItem>>

\* Lines 301-319: the next si element is rendered, written to the file
\* f.sharedStringTemp names and its offsets appended to the list; after
\* the last one, line 321 calls getFromStringItem(index) again.
SstLoop(t) ==
    /\ th[t].pc = "loop"
    /\ IF th[t].i < Len(sstDoc)
       THEN LET text == sstDoc[th[t].i + 1]
                off  == OffsetAfter(th[t].offset, Len(text))
            IN  /\ sstTemp' = [sstTemp EXCEPT !.data = @ \o text]
                /\ sstItem' = Append(sstItem, <<th[t].offset, off>>)
                /\ th' = [th EXCEPT ![t] = [@ EXCEPT !.i = @ + 1, !.offset = off]]
       ELSE /\ th' = [th EXCEPT ![t].pc = "check"]
            /\ UNCHANGED <<sstItem, sstTemp>>
    /\ UNCHANGED <<sstDoc, builds>>

\* The return.
SstReturn(t) ==
    /\ th[t].pc = "done"
    /\ th' = [th EXCEPT ![t].pc = "idle"]
    /\ UNCHANGED <<sstDoc, sstItem, sstTemp, builds>>

SstStep(t) ==
    /\ \/ SstCall(t)
       \/ SstCheck(t)
       \/ SstLookup(t)
       \/ SstInit(t)
       \/ SstCreate(t)
       \/ SstLoop(t)
       \/ SstReturn(t)
    /\ UNCHANGED <<iterVars, sheetVars, fileVars, dvVars>>

\* A document whose shared strings part has up to MaxSI strings, none
\* looked up yet.
InitSST ==
    /\ sstDoc \in SeqsUpTo(Texts, MaxSI)
    /\ sstItem = <<>>
    /\ sstTemp = NilFile
    /\ builds = 0
    /\ th = [t \in Threads |-> IdleThread]
    /\ IterIdle
    /\ SheetIdle
    /\ FileIdle
    /\ DvIdle

NextSST == \E t \in Threads : SstStep(t)

SpecSST == InitSST /\ [][NextSST]_vars

\* The same document with one thread only.
NextLookup == SstStep(1)

SpecLookup == InitSST /\ [][NextLookup]_vars

\* What a lookup of index is to return: the text of the si element, or the
\* decimal string of an index the part does not have.
Expected(index) ==
    IF index < Len(sstDoc) THEN sstDoc[index + 1] ELSE Itoa(index)

(* C11: when several threads perform their first shared-string lookup       *)
(* concurrently, the offset-index build runs exactly once, and every        *)
(* lookup of an index returns the same string for that index: the text of   *)
(* its si element, or its decimal string when the part has no such          *)
(* element.                                                                 *)
C11_BuildOnce ==
    /\ builds <= 1
    /\ \A t \in Threads : th[t].pc = "done" => th[t].res = Expected(th[t].index)

(* C12: once the store has been built with n entries, a lookup of any       *)
(* index >= n returns the decimal string of that index and does not fail,   *)
(* and a lookup of an index i < n returns the rendered text of the i-th     *)
(* string item.                                                             *)
C12_LookupAfterBuild ==
    (th[1].pc = "done" /\ sstTemp.open)
    => /\ Len(sstItem) = Len(sstDoc)
       /\ th[1].res = IF th[1].index >= Len(sstDoc) THEN Itoa(th[1].index)
                      ELSE sstDoc[th[1].index + 1]

\* Reached: the second lookup of a thread, of the second of two strings,
\* after its first lookup built the store.
C12_Witness ==
    /\ th[1].pc = "done" /\ th[1].calls = 2 /\ builds = 1
    /\ sstDoc = <<<<"a">>, <<"b", "c">>>>
    /\ th[1].index = 1 /\ th[1].res = <<"b", "c">>

----------------------------------------------------------------------------
(* Invariants of the worksheet under the row operations.                    *)

(* C13: after any sequence of InsertRows, RemoveRow, DuplicateRowTo,        *)
(* SetRowHeight and SetRowStyle calls on a worksheet that starts with its   *)
(* rows in ascending order and unique numbers, the row store holds its      *)
(* rows in strictly ascending row-number order, no number occurring twice.  *)
C13_RowsAscendingUnique ==
    \A i, j \in 1..Len(Row) : i < j => Row[i].R < Row[j].R

\* Merge ranges that can come to overlap: two single-row ranges of a row
\* (columns 1-2 and 3-4) and a two-row range over columns 2-3.
WideRanges(n) ==
    {<<1, y, 2, y>> : y \in 1..n} \cup {<<3, y, 4, y>> : y \in 1..n}
        \cup {<<2, y, 3, y + 1>> : y \in 1..n}

Overlap(a, b) == a[1] <= b[3] /\ b[1] <= a[3] /\ a[2] <= b[4] /\ b[2] <= a[4]

NonOverlapping(mc) ==
    \A i, j \in 1..Len(mc) : i # j => ~Overlap(mc[i], mc[j])

\* A worksheet whose merge ranges, up to three, do not overlap.
InitWideMerged ==
    /\ \E n \in 1..MaxInitRows :
         /\ Row = [i \in 1..n |-> xlsxRow(i, i)]
         /\ mem = [i \in 1..n |-> InitCellsOf(i)]
         /\ MergeCells \in {mc \in SeqsUpTo(WideRanges(n), 3) :
                               mc # <<>> /\ NonOverlapping(mc)}
    /\ ret = NoRet
    /\ steps = 0
    /\ structOnly = TRUE
    /\ IterIdle
    /\ SstIdle
    /\ FileIdle
    /\ DvIdle

SpecDuplicate == InitWideMerged /\ [][DoDuplicateRowTo]_vars

(* C14: if the merge ranges of a worksheet are pairwise non-overlapping,    *)
(* they are still pairwise non-overlapping after any sequence of            *)
(* DuplicateRowTo calls.                                                    *)
C14_MergesDisjoint == NonOverlapping(MergeCells)

\* Reached: row 1 carries two single-row ranges and has been duplicated to
\* row 3, into the two-row range that lay on rows 2-3: no range was added.
C14_Witness ==
    /\ ret = [op |-> "DuplicateRowTo", err |-> "nil"] /\ steps = 1
    /\ MergeCells = <<<<1, 1, 2, 1>>, <<3, 1, 4, 1>>, <<2, 2, 3, 4>>>>
    /\ Len(Row) = 3 /\ Content(Sheet, 3) = Content(Sheet, 1)

(* C15: whenever InsertRows, RemoveRow or DuplicateRowTo returns an error,  *)
(* the worksheet (row store and merge ranges) is exactly as it was before   *)
(* the call.                                                                *)
C15_ErrorLeavesSheet ==
    [][(ret'.op \in {"InsertRows", "RemoveRow", "DuplicateRowTo"}
        /\ ret'.err # "nil" /\ steps' = steps + 1)
       => (Row' = Row /\ mem' = mem /\ MergeCells' = MergeCells)]_vars

(* C16: InsertRows(sheet, position, count), position >= 1 and count >= 1,   *)
(* returns the row-limit error whenever some row numbered r >= position     *)
(* has r + count greater than the maximum number of rows.                   *)
C16_RowLimit ==
    [][\A row \in RowArgs, n \in Counts :
         (/\ row >= 1 /\ n >= 1
          /\ Did(InsertRows(Sheet, row, n), "InsertRows")
          /\ \E i \in 1..Len(Row) : Row[i].R >= row /\ Row[i].R + n > TotalRows)
         => (ret'.err = "ErrMaxRows" /\ Row' = Row)]_vars

\* Reached: rows 1 and 2 have been moved to 3 and 4, and a second
\* InsertRows that would move row 4 past the limit has been refused.
C16_Witness ==
    /\ ret = [op |-> "InsertRows", err |-> "ErrMaxRows"] /\ steps = 2
    /\ Len(Row) = 4 /\ Content(Sheet, 4) # <<>> /\ Content(Sheet, 4)[1].V = 21

----------------------------------------------------------------------------
(* The worksheet part: File.Rows flushes the worksheet held in memory to    *)
(* the package and reads the part back through a decoder.                   *)

\* xml.Marshal(ws), line 265, as the tokens a decoder delivers from it: a
\* row element per row of the store with its r and ht attributes, a c
\* element per cell with its reference and value, then </sheetData>.  The
\* cells of this model carry no formula.
MarshalCell(c) == CellTok(c.col, IF c.V = 0 THEN "" ELSE ToString(c.V), FALSE)

MarshalRow(m, r) ==
    LET cs == RowCellsIn(m, r) IN
    <<RowTok(r.R, IF r.Ht = <<>> THEN 0 ELSE r.Ht[1])>>
        \o [k \in 1..Len(cs) |-> MarshalCell(cs[k])]
        \o <<EndRowTok>>

Marshal(w) ==
    Flatten([i \in 1..Len(w.Row) |-> MarshalRow(w.mem, w.Row[i])])
        \o <<EndSDTok>>

\* The flush of Rows (lines 260-267): only a worksheet that f.Sheet holds
\* is serialized and saved to f.Pkg.
Flush_Never(isLoaded, w, p) == p

Flush(isLoaded, w, p) == IF isLoaded THEN Marshal(w) ELSE p

\* xmlDecoder(name): the bytes of f.Pkg when there are any, else the file
\* in the temporary directory, which the iterator then holds open.
xmlDecoder(p, t) ==
    IF Len(p) > 0 THEN [content |-> p, tempFile |-> "nil"]
    ELSE [content |-> t, tempFile |-> "open"]

\* The Rows value File.Rows returns (line 270): zero fields over a decoder.
NewRows(dec) ==
    /\ stream' = dec.content
    /\ tempFile' = dec.tempFile
    /\ pos' = 0
    /\ curRow' = 0
    /\ seekRow' = 0
    /\ token' = NoToken
    /\ curRowOpts' = ZeroRowOpts
    /\ seekRowOpts' = ZeroRowOpts
    /\ lastOp' = "Rows"
    /\ nextRet' = "none"
    /\ cells' = <<>>
    /\ colErr' = "nil"
    /\ closeRet' = "none"

\* The worksheet as opened, held in f.Sheet or not, its part in memory or
\* in the temporary directory.
InitFile ==
    /\ \E n \in 0..MaxInitRows :
         /\ Row = [i \in 1..n |-> xlsxRow(i, i)]
         /\ mem = [i \in 1..n |-> InitCellsOf(i)]
    /\ MergeCells = <<>>
    /\ ret = NoRet
    /\ steps = 0
    /\ structOnly = TRUE
    /\ IterIdle
    /\ SstIdle
    /\ loaded \in BOOLEAN
    /\ \E spooled \in BOOLEAN :
         /\ pkg = IF spooled THEN <<>> ELSE Marshal(Sheet)
         /\ tmp = IF spooled THEN Marshal(Sheet) ELSE <<>>
    /\ tempFile = "nil"
    /\ closeRet = "none"
    /\ wsMu = "free"
    /\ mut = NoMutation
    /\ reader = NoReader
    /\ get = NoGetRows
    /\ DvIdle

----------------------------------------------------------------------------
(* A RemoveRow on one thread and a Rows() on another, on the same sheet.    *)
(* RemoveRow (lines 542-564) takes no lock: its compaction of the row       *)
(* store (lines 554-562) and its adjustHelper call (line 563) are two       *)
(* steps.  Rows() holds ws.mu from line 262 until it returns.               *)

Threaded == mut.pc = "idle" /\ reader.pc = "idle"

\* RemoveRow up to line 562: the rows numbered row are taken out.
RemoveRowCompact ==
    \E row \in RowArgs :
        /\ mut.pc = "idle"
        /\ steps < MaxSteps
        /\ loaded
        /\ 1 <= row /\ row <= Len(Row)
        /\ LET w == Canon([Sheet EXCEPT !.Row = KeepOthers(@, row)]) IN
           /\ Row' = w.Row
           /\ mem' = w.mem
           /\ MergeCells' = w.Merge
        /\ mut' = [pc |-> "compacted", row |-> row, before |-> Sheet]
        /\ UNCHANGED <<ret, steps, structOnly, iterVars, sstVars, dvVars>>
        /\ UNCHANGED <<pkg, tmp, loaded, tempFile, closeRet, wsMu, reader, get>>

\* RemoveRow, line 563: the rows below move up.
RemoveRowAdjust ==
    /\ mut.pc = "compacted"
    /\ DoneStep(adjustHelper(Sheet, mut.row, -1), "RemoveRow", TRUE)
    /\ mut' = NoMutation
    /\ UNCHANGED <<iterVars, sstVars, dvVars>>
    /\ UNCHANGED <<pkg, tmp, loaded, tempFile, closeRet, wsMu, reader, get>>

\* Rows, line 262: ws.mu.Lock().
RowsLock ==
    /\ reader.pc = "idle"
    /\ loaded
    /\ wsMu = "free"
    /\ wsMu' = "Rows"
    /\ reader' = [pc |-> "locked"]
    /\ UNCHANGED <<iterVars, sheetVars, sstVars, dvVars>>
    /\ UNCHANGED <<pkg, tmp, loaded, tempFile, closeRet, mut, get>>

\* Rows, lines 265-266: the worksheet is serialized and saved.
RowsFlush ==
    /\ reader.pc = "locked"
    /\ pkg' = Flush(loaded, Sheet, pkg)
    /\ reader' = [pc |-> "flushed"]
    /\ UNCHANGED <<iterVars, sheetVars, sstVars, dvVars>>
    /\ UNCHANGED <<tmp, loaded, tempFile, closeRet, wsMu, mut, get>>

\* Rows, lines 269-271: the decoder is made and the deferred Unlock runs.
RowsReturn ==
    /\ reader.pc = "flushed"
    /\ NewRows(xmlDecoder(pkg, tmp))
    /\ wsMu' = "free"
    /\ reader' = NoReader
    /\ UNCHANGED <<sheetVars, sstVars, dvVars>>
    /\ UNCHANGED <<pkg, tmp, loaded, mut, get>>

\* The worksheet is held in f.Sheet when the threads start.
InitFlush == InitFile /\ loaded

NextFlush ==
    \/ RemoveRowCompact
    \/ RemoveRowAdjust
    \/ RowsLock
    \/ RowsFlush
    \/ RowsReturn
    \/ (Threaded /\ DoInsertRows)
    \/ (Threaded /\ DoDuplicateRowTo)

SpecFlush == InitFlush /\ [][NextFlush]_vars

(* C17: a RemoveRow running on one thread cannot interleave with the flush  *)
(* of a Rows() call on another thread: what the flush saves during a        *)
(* RemoveRow is the serialization of the worksheet before the whole         *)
(* RemoveRow or after it, never of a state in between.                      *)
C17_FlushAtomic ==
    [][(reader.pc = "locked" /\ reader'.pc = "flushed" /\ mut.pc # "idle")
       => pkg' \in {Marshal(mut.before),
                    Marshal(Canon(RemoveRow(mut.before, mut.row).w))}]_vars

----------------------------------------------------------------------------
(* Operations on the worksheet, then one Rows() call and the iterator's     *)
(* Next, Columns and Close, all from one thread.                            *)

\* An operation before Rows() is called.  One that returns nil or changes
\* the worksheet has gone through workSheetReader, which leaves the
\* worksheet in f.Sheet.
Mutated(res, op, struct) ==
    /\ lastOp = "none"
    /\ DoneStep(res, op, struct)
    /\ loaded' = (loaded \/ res.err = "nil" \/ Canon(res.w) # Sheet)
    /\ UNCHANGED <<iterVars, sstVars, dvVars>>
    /\ UNCHANGED <<pkg, tmp, tempFile, closeRet, wsMu, mut, reader, get>>

FileInsertRows ==
    \E row \in RowArgs, n \in Counts :
        Mutated(InsertRows(Sheet, row, n), "InsertRows", TRUE)

FileRemoveRow ==
    \E row \in RowArgs :
        Mutated(RemoveRow(Sheet, row), "RemoveRow", TRUE)

FileDuplicateRowTo ==
    \E row \in RowArgs, row2 \in RowArgs :
        Mutated(DuplicateRowTo(Sheet, row, row2), "DuplicateRowTo", TRUE)

FileSetRowHeight ==
    \E row \in RowArgs, h \in Heights :
        Mutated(SetRowHeight(Sheet, row, h), "SetRowHeight", FALSE)

\* File.Rows, lines 252-272, run to its return.
FileRows ==
    /\ lastOp = "none"
    /\ pkg' = Flush(loaded, Sheet, pkg)
    /\ NewRows(xmlDecoder(pkg', tmp))
    /\ UNCHANGED <<sheetVars, sstVars, dvVars>>
    /\ UNCHANGED <<tmp, loaded, wsMu, mut, reader, get>>

\* The iterator is read until it is closed.
Reading == lastOp # "none" /\ closeRet = "none"

OpenNext ==
    /\ Reading
    /\ RowsNextStep
    /\ UNCHANGED <<sheetVars, sstVars, fileVars, dvVars>>

OpenColumns ==
    /\ Reading
    /\ RowsColumnsStep
    /\ UNCHANGED <<sheetVars, sstVars, fileVars, dvVars>>

\* os.File.Close: [file, err].  A file already closed gives os.ErrClosed.
FileClose(file) ==
    IF file = "open" THEN [file |-> "closed", err |-> "nil"]
    ELSE [file |-> file, err |-> "ErrClosed"]

\* Rows.Close, lines 124-129: rows.tempFile is closed when it is not nil;
\* the field keeps its value.
CloseStep ==
    /\ lastOp' = "Close"
    /\ IF tempFile # "nil"
       THEN /\ tempFile' = FileClose(tempFile).file
            /\ closeRet' = FileClose(tempFile).err
       ELSE /\ tempFile' = tempFile
            /\ closeRet' = "nil"
    /\ UNCHANGED <<stream, pos, curRow, seekRow, token, curRowOpts,
                   seekRowOpts, nextRet, cells, colErr>>

RowsClose ==
    /\ lastOp # "none"
    /\ CloseStep
    /\ UNCHANGED <<sheetVars, sstVars, dvVars>>
    /\ UNCHANGED <<pkg, tmp, loaded, wsMu, mut, reader, get>>

NextFile ==
    \/ FileInsertRows
    \/ FileRemoveRow
    \/ FileDuplicateRowTo
    \/ FileSetRowHeight
    \/ FileRows
    \/ OpenNext
    \/ OpenColumns
    \/ RowsClose

SpecFile == InitFile /\ [][NextFile]_vars

(* C18: when Rows(sheet) is called after any sequence of operations on the  *)
(* worksheet, the document body the returned iterator reads is the          *)
(* serialization of the worksheet as it is at that call.                    *)
C18_RowsReadsCurrent ==
    [][(lastOp = "none" /\ lastOp' = "Rows") => stream' = Marshal(Sheet)]_vars

\* Reached: after InsertRows(sheet, 1, 1) on a worksheet that was not in
\* f.Sheet, the iterator has delivered the old row 1 as row 2.
C18_Witness ==
    /\ ret = [op |-> "InsertRows", err |-> "nil"] /\ steps = 1
    /\ lastOp = "Columns" /\ seekRow = 2 /\ curRow = 2
    /\ cells = <<"11", "12">>
    /\ stream = Marshal(Sheet) /\ stream # tmp /\ tmp # <<>>

(* C19: a second Close() on the same iterator, with or without a spooled    *)
(* file handle, leaves the state the first Close() left and returns no      *)
(* error, as the first did.                                                 *)
C19_CloseIdempotent ==
    [][(lastOp = "Close" /\ lastOp' = "Close")
       => (closeRet' = "nil" /\ closeRet' = closeRet /\ tempFile' = tempFile)]_vars

----------------------------------------------------------------------------
(* File.GetRows, lines 47-65, over a worksheet part that no operation has   *)
(* loaded: the part is any of the documents the iterator is checked on.     *)

\* results[:max], line 64.
Trim_All(results, max) == results

Trim(results, max) == SubSeq(results, 1, max)

GetRowsOver(docs) ==
    /\ SheetIdle
    /\ SstIdle
    /\ IterIdle
    /\ \E doc \in docs, spooled \in BOOLEAN :
         /\ pkg = IF spooled THEN <<>> ELSE doc
         /\ tmp = IF spooled THEN doc ELSE <<>>
    /\ loaded = FALSE
    /\ tempFile = "nil"
    /\ closeRet = "none"
    /\ wsMu = "free"
    /\ mut = NoMutation
    /\ reader = NoReader
    /\ get = NoGetRows
    /\ DvIdle

InitGetRows == GetRowsOver(Streams)

\* Lines 48-52: rows, err := f.Rows(sheet); results, cur, max are zero.
GetRowsOpen ==
    /\ get.pc = "idle"
    /\ pkg' = Flush(loaded, Sheet, pkg)
    /\ NewRows(xmlDecoder(pkg', tmp))
    /\ get' = [NoGetRows EXCEPT !.pc = "next"]
    /\ UNCHANGED <<sheetVars, sstVars, dvVars>>
    /\ UNCHANGED <<tmp, loaded, wsMu, mut, reader>>

\* Lines 53-54: for rows.Next() { cur++.
GetRowsNext ==
    /\ get.pc = "next"
    /\ RowsNextStep
    /\ get' = IF nextRet' = "true"
              THEN [get EXCEPT !.pc = "columns", !.cur = @ + 1]
              ELSE [get EXCEPT !.pc = "return"]
    /\ UNCHANGED <<sheetVars, sstVars, dvVars>>
    /\ UNCHANGED <<pkg, tmp, loaded, tempFile, closeRet, wsMu, mut, reader>>

\* Lines 55-62: row, err := rows.Columns(); the loop is left when err is
\* not nil; else results = append(results, row) and max = cur when the row
\* has entries.  This err is a variable of the loop body.
GetRowsColumns ==
    /\ get.pc = "columns"
    /\ RowsColumnsStep
    /\ get' = IF colErr' # "nil"
              THEN [get EXCEPT !.pc = "return"]
              ELSE [get EXCEPT !.pc = "next",
                               !.results = Append(@, cells'),
                               !.max = IF Len(cells') > 0 THEN get.cur ELSE @]
    /\ UNCHANGED <<sheetVars, sstVars, dvVars>>
    /\ UNCHANGED <<pkg, tmp, loaded, tempFile, closeRet, wsMu, mut, reader>>

\* Line 64: return results[:max], rows.Close().
GetRowsReturn ==
    /\ get.pc = "return"
    /\ CloseStep
    /\ get' = [get EXCEPT !.pc = "done", !.results = Trim(@, get.max),
                          !.err = closeRet']
    /\ UNCHANGED <<sheetVars, sstVars, dvVars>>
    /\ UNCHANGED <<pkg, tmp, loaded, wsMu, mut, reader>>

NextGetRows ==
    \/ GetRowsOpen
    \/ GetRowsNext
    \/ GetRowsColumns
    \/ GetRowsReturn

SpecGetRows == InitGetRows /\ [][NextGetRows]_vars

\* What Columns() makes of a row's c elements: rowXMLHandler on each.
RECURSIVE ColumnsFold(_, _)
ColumnsFold(it, cs) ==
    IF cs = <<>> THEN it.cells
    ELSE ColumnsFold(rowXMLHandler(it, Head(cs)), Tail(cs))

ColumnsOf(cs) == ColumnsFold([cellCol |-> 0, cells |-> <<>>], cs)

\* The number of the document's last row element.
RECURSIVE LastRowNum(_, _, _)
LastRowNum(s, i, prev) ==
    IF i > Len(s) THEN prev
    ELSE LastRowNum(s, i + 1,
                    IF s[i].k = "row" THEN DocRowNum(s[i], prev) ELSE prev)

\* The number of the last row whose Columns() result has entries, 0 when
\* there is none.
LastFilled(s) ==
    LET filled == {i \in 1..LastRowNum(s, 1, 0) : ColumnsOf(RowCells(s, i)) # <<>>}
    IN  IF filled = {} THEN 0 ELSE SetMax(filled)

(* C20: GetRows returns the Columns() results of rows 1..k in order, k the  *)
(* number of the last row whose result is non-empty: blank rows after row   *)
(* k are dropped, blank rows before it are kept as empty entries, and       *)
(* entry i (from 0) is row i + 1.  (Checked over documents whose rows are   *)
(* in ascending order.)                                                     *)
C20_GetRowsTrimmed ==
    (get.pc = "done" /\ RowsAscending(stream))
        => get.results = [i \in 1..LastFilled(stream) |->
                             ColumnsOf(RowCells(stream, i))]

\* Reached: a document with row 2 holding "a" and a blank row 3 has been
\* read in three iterations as an empty entry and <<"a">>.
C20_Witness ==
    /\ get.pc = "done" /\ get.cur = 3 /\ get.max = 2
    /\ RowsAscending(stream)
    /\ get.results = << <<>>, <<"a">> >>
    /\ closeRet = "nil"

----------------------------------------------------------------------------
(* DataValidation.SetDropList (datavalidation.go, lines 148-160).  A        *)
(* string is the sequence of its characters; "W" stands for a character     *)
(* outside the basic plane, which is one rune and two UTF-16 code units.    *)

MaxFieldLength == 4   \* MaxFieldLength (255), scaled down
MaxKeys        == 3   \* keys passed to one SetDropList call

SampleKeys ==
    {<<>>, <<"a">>, <<"W">>, <<"<">>, <<"\"">>, <<"=", "a">>, <<"a", "W">>}

KeyLists == SeqsUpTo(SampleKeys, MaxKeys)

\* strings.Join(keys, ",")
RECURSIVE Join(_)
Join(keys) ==
    IF keys = <<>> THEN <<>>
    ELSE IF Len(keys) = 1 THEN keys[1]
    ELSE keys[1] \o <<",">> \o Join(Tail(keys))

\* utf16.Encode of one rune: a surrogate pair for a rune outside the basic
\* plane, the rune itself otherwise.
EncodeRune(c) == IF c = "W" THEN <<"hi", "lo">> ELSE <<c>>

\* len(utf16.Encode([]rune(formula))), line 150.
U16Len_Runes(str) == Len(str)

U16Len(str) == Len(Flatten([k \in 1..Len(str) |-> EncodeRune(str[k])]))

\* formulaEscaper, lines 74-78.
EscapeChar(c) ==
    CASE c = "&" -> <<"&", "a", "m", "p", ";">>
      [] c = "<" -> <<"&", "l", "t", ";">>
      [] c = ">" -> <<"&", "g", "t", ";">>
      [] OTHER   -> <<c>>

formulaEscaper(str) == Flatten([k \in 1..Len(str) |-> EscapeChar(str[k])])

\* strings.NewReplacer(`"`, `""`), line 158.
DoubleQuote(c) == IF c = "\"" THEN <<"\"", "\"">> ELSE <<c>>

DoubleQuotes(str) == Flatten([k \in 1..Len(str) |-> DoubleQuote(str[k])])

HasPrefix(str, c) == str # <<>> /\ str[1] = c

\* SetDropList: [dv, err].
SetDropList(d, keys) ==
    LET formula == Join(keys) IN
    IF MaxFieldLength < U16Len(formula)
    THEN [dv |-> d, err |-> "ErrDataValidationFormulaLength"]
    ELSE IF HasPrefix(formula, "=")
    THEN [dv |-> [d EXCEPT !.Type = "list",
                           !.Formula1 = formulaEscaper(formula)],
          err |-> "nil"]
    ELSE [dv |-> [d EXCEPT !.Type = "list",
                           !.Formula1 = <<"\"">>
                               \o DoubleQuotes(formulaEscaper(formula))
                               \o <<"\"">>],
          err |-> "nil"]

\* A DataValidation as NewDataValidation returns it (lines 109-115), one
\* that SetRange has given a type and a formula, or one that holds a list.
InitDropList ==
    /\ IterIdle
    /\ SheetIdle
    /\ SstIdle
    /\ FileIdle
    /\ dv \in {NoValidation, [Type |-> "whole", Formula1 |-> <<"1">>],
                SetDropList(NoValidation, <<<<"a">>>>).dv}
    /\ dvCall = NoDvCall

\* One call on the object.
DoSetDropList ==
    \E keys \in KeyLists :
        LET res == SetDropList(dv, keys) IN
        /\ dvCall = NoDvCall
        /\ dv' = res.dv
        /\ dvCall' = [keys |-> keys, err |-> res.err]
        /\ UNCHANGED <<iterVars, sheetVars, sstVars, fileVars>>

SpecDropList == InitDropList /\ [][DoSetDropList]_vars

\* The UTF-16 code units of a string: two for "W", one for any other
\* character of the model.
RECURSIVE CodeUnits(_)
CodeUnits(str) ==
    IF str = <<>> THEN 0
    ELSE (IF Head(str) = "W" THEN 2 ELSE 1) + CodeUnits(Tail(str))

\* The list as Formula1 holds it: markup characters as entities; quoted,
\* with every quote doubled, unless the list is a formula.
RECURSIVE Entities(_)
Entities(str) ==
    IF str = <<>> THEN <<>>
    ELSE (CASE Head(str) = "<" -> <<"&", "l", "t", ";">>
            [] Head(str) = ">" -> <<"&", "g", "t", ";">>
            [] Head(str) = "&" -> <<"&", "a", "m", "p", ";">>
            [] OTHER -> <<Head(str)>>) \o Entities(Tail(str))

RECURSIVE Doubled(_)
Doubled(str) ==
    IF str = <<>> THEN <<>>
    ELSE (IF Head(str) = "\"" THEN <<"\"", "\"">> ELSE <<Head(str)>>)
             \o Doubled(Tail(str))

EscapedList(str) ==
    IF str # <<>> /\ Head(str) = "=" THEN Entities(str)
    ELSE <<"\"">> \o Doubled(Entities(str)) \o <<"\"">>

(* C21: SetDropList(keys) returns the formula-length error exactly when     *)
(* the keys joined with "," are longer than MaxFieldLength UTF-16 code      *)
(* units, and then leaves Type and Formula1 as they were; otherwise it      *)
(* sets Type to list and Formula1 to the escaped list and returns no error. *)
C21_DropListLimit ==
    [][LET joined == Join(dvCall'.keys) IN
       IF CodeUnits(joined) > MaxFieldLength
       THEN dvCall'.err = "ErrDataValidationFormulaLength" /\ dv' = dv
       ELSE /\ dvCall'.err = "nil"
            /\ dv'.Type = "list"
            /\ dv'.Formula1 = EscapedList(joined)]_vars

\* Reached: a list of four characters and five code units has been refused
\* on an object that held a type and a formula.
C21_Witness ==
    /\ dvCall = [keys |-> <<<<"a", "W">>, <<"a">>>>,
                 err |-> "ErrDataValidationFormulaLength"]
    /\ dv = [Type |-> "whole", Formula1 |-> <<"1">>]

----------------------------------------------------------------------------
(* The loop "for rows.Next() { rows.Columns() }", as GetRows runs it        *)
(* (lines 53-63): get.cur counts the Next() calls that returned true and    *)
(* get.results holds what each Columns() call returned.                     *)

\* The number of the last row element inside sheetData.
RECURSIVE LastSheetRow(_, _, _)
LastSheetRow(s, i, prev) ==
    IF i > Len(s) \/ s[i].k = "endSD" THEN prev
    ELSE LastSheetRow(s, i + 1,
                      IF s[i].k = "row" THEN DocRowNum(s[i], prev) ELSE prev)

(* C22: over a stream whose row elements carry ascending numbers (the r     *)
(* attribute, or the previous number + 1) with largest number N, the loop   *)
(* of Next() and Columns() sees Next() return true exactly N times, and     *)
(* the k-th Columns() returns the cells of the row element numbered k, or   *)
(* nothing when no row element has that number.  N is the number of the    *)
(* last row element inside sheetData.                                       *)
C22_LoopDeliversRows ==
    (get.pc \in {"next", "return"} /\ RowsAscending(stream))
        => /\ get.cur <= LastSheetRow(stream, 1, 0)
           /\ get.pc = "return" => get.cur = LastSheetRow(stream, 1, 0)
           /\ get.results = [k \in 1..get.cur |->
                                ColumnsOf(RowCells(stream, k))]

----------------------------------------------------------------------------
(* Rows.GetRowOpts (lines 113-115) returns rows.curRowOpts.                 *)

GetRowOpts == curRowOpts

\* The positions of the row elements numbered k inside sheetData.
RECURSIVE RowElemsAt(_, _, _, _)
RowElemsAt(s, i, prev, k) ==
    IF i > Len(s) \/ s[i].k = "endSD" THEN {}
    ELSE IF s[i].k = "row"
         THEN (IF DocRowNum(s[i], prev) = k THEN {i} ELSE {})
                  \cup RowElemsAt(s, i + 1, DocRowNum(s[i], prev), k)
         ELSE RowElemsAt(s, i + 1, prev, k)

(* C23: after every Next() that returns true, GetRowOpts() returns the      *)
(* attributes of the row element whose number is the delivered row          *)
(* number, whenever the stream has such an element, whether or not          *)
(* Columns() was called between the Next() calls.  (Stated over streams     *)
(* whose row numbers are ascending.)                                        *)
C23_RowOptsOfDelivered ==
    [][(/\ lastOp' = "Next" /\ nextRet' = "true"
        /\ RowsAscending(stream)
        /\ RowElemsAt(stream, 1, 0, seekRow') # {})
       => \E i \in RowElemsAt(stream, 1, 0, seekRow') :
             GetRowOpts' = extractRowOpts(stream[i])]_vars

----------------------------------------------------------------------------
(* getFromStringItem from one thread, with any index.                       *)

AnyIndexes == -1..MaxSI + 1

SstCallAny(t) ==
    /\ th[t].pc = "idle"
    /\ th[t].calls < MaxCalls
    /\ \E index \in AnyIndexes :
         th' = [th EXCEPT ![t] = [@ EXCEPT !.pc = "check", !.index = index,
                                           !.calls = @ + 1]]
    /\ UNCHANGED <<sstDoc, sstItem, sstTemp, builds>>

NextAnyIndex ==
    /\ \/ SstCallAny(1)
       \/ SstCheck(1)
       \/ SstLookup(1)
       \/ SstInit(1)
       \/ SstCreate(1)
       \/ SstLoop(1)
       \/ SstReturn(1)
    /\ UNCHANGED <<iterVars, sheetVars, fileVars, dvVars>>

SpecAnyIndex == InitSST /\ [][NextAnyIndex]_vars

(* C24: getFromStringItem is total: for every index, negative ones and a    *)
(* string table without items included, it returns a string after at most   *)
(* one build, without a run-time fault.                                     *)
C24_LookupTotal ==
    /\ th[1].pc # "panic"
    /\ builds <= 1

----------------------------------------------------------------------------
(* GetRows over worksheet parts with cells whose reference names no cell.   *)

\* Rows that are empty, hold a cell, hold a cell with a malformed
\* reference, or hold both.
ErrRowElems ==
    {RowElem(r, cs) :
        r \in 0..MaxRowNum,
        cs \in {<<>>,
                <<CellTok(0, "a", FALSE)>>,
                <<CellTok(BadRef, "a", FALSE)>>,
                <<CellTok(1, "a", FALSE), CellTok(BadRef, "a", FALSE)>>}}

ErrStreams ==
    {RowElemToks(es) \o <<EndSDTok>> : es \in SeqsUpTo(ErrRowElems, MaxStreamRows)}

InitGetRowsErr == GetRowsOver(ErrStreams)

SpecGetRowsErr == InitGetRowsErr /\ [][NextGetRows]_vars

(* C25: when a Columns() call made by GetRows fails on some row, GetRows    *)
(* returns that error to its caller, together with the rows read before     *)
(* it.                                                                      *)
C25_GetRowsReturnsError ==
    (get.pc = "done" /\ colErr # "nil")
        => /\ get.err = colErr
           /\ Len(get.results) <= get.cur - 1

=============================================================================
